---- MODULE Spec2Model ----
(***************************************************************************)
(* Session orchestration of the native wormhole client                     *)
(* (native/src/wormhole.rs, native/src/types.rs).                          *)
(*                                                                         *)
(* One WormholeClient owns one SessionState behind a tokio Mutex.  Every   *)
(* public operation is an async task; tasks interleave at their .await     *)
(* points.  A stretch of code without an .await that starts by acquiring   *)
(* the mutex and ends by dropping the guard is one action, enabled when    *)
(* the mutex is free.  reject_transfer keeps the guard over an .await, so  *)
(* the mutex owner is part of the state.                                   *)
(***************************************************************************)
EXTENDS Integers, Sequences, FiniteSets

\* ---------------------------------------------------------------- bounds
MaxTasks == 3      \* operations invoked on the client in one behaviour
MaxResets == 1     \* reset tasks of cancel() pending at one time
MaxSize == 1       \* largest file size in bytes
MaxSamples == 1    \* progress samples the transit layer reports per transfer
MaxBytes == 12     \* largest byte counter handed to ProgressEvent::new alone

Tasks == 1..MaxTasks
Sizes == 0..MaxSize

\* ------------------------------------------------------- inputs (environment)
\* file_path arguments of send_file and the filesystem they are looked up in
Paths == {"/home/u/a.txt", "/home/u/missing.txt"}
ExistingPaths == {"/home/u/a.txt"}

\* code arguments of connect_receive; the second has no nameplate
Codes == {"7-crossover-clockwork", "crossover clockwork"}
WellFormedCodes == {"7-crossover-clockwork"}

NoArg == "-"

\* operations that begin by taking the phase out of the state
TakeOps == {"send_file", "accept_transfer", "reject_transfer"}

ArgsOf(o) == IF o = "send_file" THEN Paths ELSE {NoArg}

\* ------------------------------------------------------------ SessionState
Idle == [tag |-> "Idle", res |-> 0, size |-> 0]
MailboxReady(mailbox) == [tag |-> "MailboxReady", res |-> mailbox, size |-> 0]
Connected(wormhole) == [tag |-> "Connected", res |-> wormhole, size |-> 0]
Receiving(request, filesize) ==
    [tag |-> "Receiving", res |-> request, size |-> filesize]

\* ----------------------------------------------------------- ProgressEvent
\* f64 quotients k/100 for which (k/100)*100.0 lands just below k, so that
\* the cast to u32 truncates to k-1 (IEEE-754 binary64, ratios up to 4.0).
F64Below == {29, 57, 58, 113, 114, 115, 116, 201, 203, 205, 207,
             226, 228, 230, 232, 251, 253, 255}

\* ((transferred as f64 / total as f64) * 100.0) as u32
Percent(transferred, total) ==
    IF total > 0
    THEN LET k == (transferred * 100) \div total
         IN  IF (transferred * 100) % total = 0 /\ k \in F64Below
             THEN k - 1 ELSE k
    ELSE 0

\* ProgressEvent::new; src tells which call site built the sample
ProgressEvent(transferred, total, src) ==
    [transferred |-> transferred, total |-> total,
     percent |-> Percent(transferred, total), src |-> src]

\* ------------------------------------------------------------------- state
VARIABLES
    state,     \* the SessionState inside the Mutex
    lock,      \* task holding the MutexGuard, 0 when the mutex is free
    resets,    \* reset tasks spawned by cancel() that have not run yet
    op,        \* op[t]: operation task t runs, "none" before it is invoked
    arg,       \* arg[t]: its file_path / code argument
    pc,        \* pc[t]: where task t is suspended
    result,    \* result[t]: "pending", "Ok" or the WormholeError it returned
    total,     \* total[t]: total_size / filesize local of task t
    samples,   \* samples[t]: ProgressEvents handed to t's progress_callback
    calls,     \* calls[t]: collaborator calls task t has started
    took,      \* took[t]: mailbox / request task t moved out of the state
    seen,      \* seen[t]: tag that t's mem::replace returned, "none" before
    wrote,     \* wrote[t]: tags task t has stored into the state
    hist       \* observer of the order of events around cancel() and of
               \* the resources discarded from the state; no operation
               \* reads it

vars == <<state, lock, resets, op, arg, pc, result, total, samples,
          calls, took, seen, wrote, hist>>

taskVars == <<op, arg, pc, result, total, samples, calls, took, seen, wrote>>

\* nothing observed yet
NoHistory ==
    [cancelled |-> FALSE, stale |-> {}, after |-> {}, fresh |-> FALSE,
     resetRan |-> FALSE, inflight |-> {}, dropped |-> {}]

\* WormholeClient::new
Init ==
    /\ hist = NoHistory
    /\ state = Idle
    /\ lock = 0
    /\ resets = 0
    /\ op = [t \in Tasks |-> "none"]
    /\ arg = [t \in Tasks |-> NoArg]
    /\ pc = [t \in Tasks |-> "new"]
    /\ result = [t \in Tasks |-> "pending"]
    /\ total = [t \in Tasks |-> 0]
    /\ samples = [t \in Tasks |-> << >>]
    /\ calls = [t \in Tasks |-> 0]
    /\ took = [t \in Tasks |-> 0]
    /\ seen = [t \in Tasks |-> "none"]
    /\ wrote = [t \in Tasks |-> {}]

\* ----------------------------------------------------------------- helpers
\* `return Err(e.into())` / `?` on an Err
Fail(t, e) ==
    /\ pc' = [pc EXCEPT ![t] = "done"]
    /\ result' = [result EXCEPT ![t] = e]
    /\ total' = [total EXCEPT ![t] = 0]

\* `Ok(..)` at the end of an operation
Return(t) ==
    /\ pc' = [pc EXCEPT ![t] = "done"]
    /\ result' = [result EXCEPT ![t] = "Ok"]
    /\ UNCHANGED total

Goto(t, label) ==
    /\ pc' = [pc EXCEPT ![t] = label]
    /\ UNCHANGED <<result, total>>

\* as Goto, with the local total_size / filesize bound to size
GotoWith(t, label, size) ==
    /\ pc' = [pc EXCEPT ![t] = label]
    /\ total' = [total EXCEPT ![t] = size]
    /\ UNCHANGED result

\* a collaborator future is created and awaited
Call(t) == calls' = [calls EXCEPT ![t] = @ + 1]

\* `*state = phase` through the guard
Store(t, phase) ==
    /\ state' = phase
    /\ wrote' = [wrote EXCEPT ![t] = @ \cup {phase.tag}]

\* the host runtime starts send_file, accept_transfer or reject_transfer as
\* a new task; tasks are numbered in the order they are invoked
Invoke(t, o, a) ==
    /\ pc[t] = "new"
    /\ \A u \in Tasks : u < t => pc[u] # "new"
    /\ o \in TakeOps
    /\ op' = [op EXCEPT ![t] = o]
    /\ arg' = [arg EXCEPT ![t] = a]
    /\ Goto(t, "start")
    /\ UNCHANGED <<state, lock, resets, samples, calls, took, seen, wrote>>

\* -------------------------------------------------------- create_send_code
\* create_send_code is invoked and runs to its first .await: the relay hint
\* of the constant DEFAULT_RELAY_SERVER is built and
\* MailboxConnection::create(..) is awaited
create_send_code_call(t) ==
    /\ pc[t] = "new"
    /\ \A u \in Tasks : u < t => pc[u] # "new"
    /\ op' = [op EXCEPT ![t] = "create_send_code"]
    /\ Goto(t, "create")
    /\ Call(t)
    /\ UNCHANGED <<state, lock, resets, arg, samples, took, seen, wrote>>

\* variant: the phase is stored before the result of the await is examined
create_send_code_create_eager(t) ==
    /\ op[t] = "create_send_code" /\ pc[t] = "create"
    /\ lock = 0
    /\ Store(t, MailboxReady(t))
    /\ \/ Fail(t, "ConnectionFailed")
       \/ Return(t)
    /\ UNCHANGED <<lock, resets, op, arg, samples, calls, took, seen>>

\* MailboxConnection::create(..).await returns
create_send_code_create(t) ==
    /\ op[t] = "create_send_code" /\ pc[t] = "create"
    /\ \/ Fail(t, "ConnectionFailed")
       \/ Goto(t, "install")
    /\ UNCHANGED <<state, lock, resets, op, arg, samples, calls, took, seen,
                   wrote>>

\* lock, `*state = MailboxReady {mailbox, relay_hints}`, Ok(code);
\* the mailbox allocated by task t is named t
create_send_code_install(t) ==
    /\ op[t] = "create_send_code" /\ pc[t] = "install"
    /\ lock = 0
    /\ Store(t, MailboxReady(t))
    /\ Return(t)
    /\ UNCHANGED <<lock, resets, op, arg, samples, calls, took, seen>>

\* --------------------------------------------------------------- streaming
\* variant: the phase is read through the guard and left in the state
Peek(t) ==
    /\ UNCHANGED <<state, wrote>>
    /\ seen' = [seen EXCEPT ![t] = state.tag]

\* std::mem::replace(&mut *state, SessionState::Idle) through the guard
Replace(t) ==
    /\ Store(t, Idle)
    /\ seen' = [seen EXCEPT ![t] = state.tag]

\* variants: the arm also catches Idle
IsMailboxReadyOrIdle(phase) == phase.tag \in {"MailboxReady", "Idle"}
IsReceivingOrIdle(phase) == phase.tag \in {"Receiving", "Idle"}

\* the arms `SessionState::MailboxReady {..} =>` and
\* `SessionState::Receiving {..} =>` of the matches on the replaced value
IsMailboxReady(phase) == phase.tag = "MailboxReady"
IsReceiving(phase) == phase.tag = "Receiving"

\* byte counters the transit layer may report next: its counter is
\* cumulative, 0 before the first record and then growing up to the total
NextReports(t) ==
    IF samples[t] = << >>
    THEN 0..total[t]
    ELSE (samples[t][Len(samples[t])].transferred + 1)..total[t]

\* progress_cb.call(Ok(event), NonBlocking)
Deliver(t, event) == samples' = [samples EXCEPT ![t] = Append(@, event)]

\* progress_handler closure of send_file and accept_transfer, called by the
\* transit layer while transfer::send / request.accept is awaited
progress_handler(t) ==
    /\ op[t] \in {"send_file", "accept_transfer"} /\ pc[t] = "stream"
    /\ Len(samples[t]) < MaxSamples
    /\ \E n \in NextReports(t) :
          Deliver(t, ProgressEvent(n, total[t], "transit"))
    /\ UNCHANGED <<state, lock, resets, op, arg, pc, result, total, calls,
                   took, seen, wrote>>

\* --------------------------------------------------------------- send_file
\* variant: the mailbox is taken before path.exists() is consulted
send_file_take_first(t) ==
    /\ op[t] = "send_file" /\ pc[t] = "start"
    /\ lock = 0
    /\ Replace(t)
    /\ IF ~IsMailboxReady(state)
       THEN /\ Fail(t, "NoActiveSession")
            /\ UNCHANGED <<took, calls>>
       ELSE /\ took' = [took EXCEPT ![t] = state.res]
            /\ IF arg[t] \notin ExistingPaths
               THEN Fail(t, "FileNotFound") /\ UNCHANGED calls
               ELSE Goto(t, "connect") /\ Call(t)
    /\ UNCHANGED <<lock, resets, op, arg, samples>>

\* variant: on a match the phase becomes Connected while the transfer runs
send_file_take_promote(t) ==
    /\ op[t] = "send_file" /\ pc[t] = "start"
    /\ IF arg[t] \notin ExistingPaths
       THEN /\ Fail(t, "FileNotFound")
            /\ UNCHANGED <<state, wrote, seen, took, calls>>
       ELSE /\ lock = 0
            /\ seen' = [seen EXCEPT ![t] = state.tag]
            /\ IF IsMailboxReady(state)
               THEN /\ Store(t, Connected(state.res))
                    /\ took' = [took EXCEPT ![t] = state.res]
                    /\ Goto(t, "connect")
                    /\ Call(t)
               ELSE /\ Store(t, Idle)
                    /\ Fail(t, "NoActiveSession")
                    /\ UNCHANGED <<took, calls>>
    /\ UNCHANGED <<lock, resets, op, arg, samples>>

\* path.exists(), then lock and take the mailbox out of the state;
\* on a match Wormhole::connect(mailbox) is awaited
send_file_take(t) ==
    /\ op[t] = "send_file" /\ pc[t] = "start"
    /\ IF arg[t] \notin ExistingPaths
       THEN /\ Fail(t, "FileNotFound")
            /\ UNCHANGED <<state, wrote, seen, took, calls>>
       ELSE /\ lock = 0
            /\ Replace(t)
            /\ IF IsMailboxReady(state)
               THEN /\ took' = [took EXCEPT ![t] = state.res]
                    /\ Goto(t, "connect")
                    /\ Call(t)
               ELSE /\ Fail(t, "NoActiveSession")
                    /\ UNCHANGED <<took, calls>>
    /\ UNCHANGED <<lock, resets, op, arg, samples>>

\* Wormhole::connect(mailbox).await returns; on success
\* OfferSend::new_file_or_folder(..) is awaited
send_file_connect(t) ==
    /\ op[t] = "send_file" /\ pc[t] = "connect"
    /\ \/ Fail(t, "ConnectionFailed") /\ UNCHANGED calls
       \/ Goto(t, "offer") /\ Call(t)
    /\ UNCHANGED <<state, lock, resets, op, arg, samples, took, seen, wrote>>

\* the offer is built, total_size = offer.total_size(), transfer::send(..)
\* is awaited
send_file_offer(t) ==
    /\ op[t] = "send_file" /\ pc[t] = "offer"
    /\ \/ Fail(t, "TransferFailed") /\ UNCHANGED calls
       \/ \E size \in Sizes : GotoWith(t, "stream", size) /\ Call(t)
    /\ UNCHANGED <<state, lock, resets, op, arg, samples, took, seen, wrote>>

\* variant: the completion sample is delivered before the result of
\* transfer::send is examined
send_file_finish_always(t) ==
    /\ op[t] = "send_file" /\ pc[t] = "stream"
    /\ Deliver(t, ProgressEvent(total[t], total[t], "completion"))
    /\ \/ Fail(t, "TransferFailed")
       \/ Return(t)
    /\ UNCHANGED <<state, lock, resets, op, arg, calls, took, seen, wrote>>

\* transfer::send(..).await returns; on success the completion sample
\* ProgressEvent::new(total_size, total_size) is delivered
send_file_finish(t) ==
    /\ op[t] = "send_file" /\ pc[t] = "stream"
    /\ \/ Fail(t, "TransferFailed") /\ UNCHANGED samples
       \/ /\ Deliver(t, ProgressEvent(total[t], total[t], "completion"))
          /\ Return(t)
    /\ UNCHANGED <<state, lock, resets, op, arg, calls, took, seen, wrote>>

\* --------------------------------------------------------- connect_receive
\* variant: the mailbox is contacted with the raw text; the code is not parsed
connect_receive_call_unparsed(t, code) ==
    /\ pc[t] = "new"
    /\ \A u \in Tasks : u < t => pc[u] # "new"
    /\ op' = [op EXCEPT ![t] = "connect_receive"]
    /\ arg' = [arg EXCEPT ![t] = code]
    /\ Goto(t, "mailbox")
    /\ Call(t)
    /\ UNCHANGED <<state, lock, resets, samples, took, seen, wrote>>

\* connect_receive is invoked and runs to its first .await: code.parse(),
\* the relay hint, then MailboxConnection::connect(..) is awaited
connect_receive_call(t, code) ==
    /\ pc[t] = "new"
    /\ \A u \in Tasks : u < t => pc[u] # "new"
    /\ op' = [op EXCEPT ![t] = "connect_receive"]
    /\ arg' = [arg EXCEPT ![t] = code]
    /\ IF code \notin WellFormedCodes
       THEN Fail(t, "InvalidCode") /\ UNCHANGED calls
       ELSE Goto(t, "mailbox") /\ Call(t)
    /\ UNCHANGED <<state, lock, resets, samples, took, seen, wrote>>

\* MailboxConnection::connect(..).await returns; on success
\* Wormhole::connect(mailbox) is awaited
connect_receive_mailbox(t) ==
    /\ op[t] = "connect_receive" /\ pc[t] = "mailbox"
    /\ \/ Fail(t, "ConnectionFailed") /\ UNCHANGED calls
       \/ Goto(t, "connect") /\ Call(t)
    /\ UNCHANGED <<state, lock, resets, op, arg, samples, took, seen, wrote>>

\* Wormhole::connect(mailbox).await returns; on success
\* transfer::request_file(..) is awaited
connect_receive_connect(t) ==
    /\ op[t] = "connect_receive" /\ pc[t] = "connect"
    /\ \/ Fail(t, "ConnectionFailed") /\ UNCHANGED calls
       \/ Goto(t, "request") /\ Call(t)
    /\ UNCHANGED <<state, lock, resets, op, arg, samples, took, seen, wrote>>

\* transfer::request_file(..).await returns Err, Ok(None) or Ok(Some(request));
\* filesize = request.file_size()
connect_receive_request(t) ==
    /\ op[t] = "connect_receive" /\ pc[t] = "request"
    /\ \/ Fail(t, "TransferFailed")
       \/ Fail(t, "Cancelled")
       \/ \E filesize \in Sizes : GotoWith(t, "install", filesize)
    /\ UNCHANGED <<state, lock, resets, op, arg, samples, calls, took, seen,
                   wrote>>

\* variant: the request is stored only into an empty state
connect_receive_install_if_idle(t) ==
    /\ op[t] = "connect_receive" /\ pc[t] = "install"
    /\ lock = 0
    /\ state = Idle
    /\ Store(t, Receiving(t, total[t]))
    /\ Return(t)
    /\ UNCHANGED <<lock, resets, op, arg, samples, calls, took, seen>>

\* lock, `*state = Receiving {request, relay_hints}`, Ok(ReceiveOffer);
\* the request obtained by task t is named t
connect_receive_install(t) ==
    /\ op[t] = "connect_receive" /\ pc[t] = "install"
    /\ lock = 0
    /\ Store(t, Receiving(t, total[t]))
    /\ Return(t)
    /\ UNCHANGED <<lock, resets, op, arg, samples, calls, took, seen>>

\* --------------------------------------------------------- accept_transfer
\* variant: the phase is matched in place and only a pending request is
\* moved out of it
accept_transfer_take_in_place(t) ==
    /\ op[t] = "accept_transfer" /\ pc[t] = "start"
    /\ lock = 0
    /\ IF IsReceiving(state)
       THEN /\ Replace(t)
            /\ took' = [took EXCEPT ![t] = state.res]
            /\ GotoWith(t, "open", state.size)
       ELSE /\ Peek(t)
            /\ Fail(t, "NoActiveSession")
            /\ UNCHANGED took
    /\ UNCHANGED <<lock, resets, op, arg, samples, calls>>

\* lock and take the request out of the state; on a match
\* filesize = request.file_size() and the output file is opened (awaited)
accept_transfer_take(t) ==
    /\ op[t] = "accept_transfer" /\ pc[t] = "start"
    /\ lock = 0
    /\ Replace(t)
    /\ IF IsReceiving(state)
       THEN /\ took' = [took EXCEPT ![t] = state.res]
            /\ GotoWith(t, "open", state.size)
       ELSE /\ Fail(t, "NoActiveSession")
            /\ UNCHANGED took
    /\ UNCHANGED <<lock, resets, op, arg, samples, calls>>

\* variant: request.accept(..) is started before the result of open is examined
accept_transfer_open_late(t) ==
    /\ op[t] = "accept_transfer" /\ pc[t] = "open"
    /\ Call(t)
    /\ \/ Fail(t, "IoError")
       \/ Goto(t, "stream")
    /\ UNCHANGED <<state, lock, resets, op, arg, samples, took, seen, wrote>>

\* OpenOptions .. open(&output_path).await returns; on success
\* request.accept(..) is awaited
accept_transfer_open(t) ==
    /\ op[t] = "accept_transfer" /\ pc[t] = "open"
    /\ \/ Fail(t, "IoError") /\ UNCHANGED calls
       \/ Goto(t, "stream") /\ Call(t)
    /\ UNCHANGED <<state, lock, resets, op, arg, samples, took, seen, wrote>>

\* request.accept(..).await returns; on success the completion sample
\* ProgressEvent::new(filesize, filesize) is delivered
accept_transfer_finish(t) ==
    /\ op[t] = "accept_transfer" /\ pc[t] = "stream"
    /\ \/ Fail(t, "TransferFailed") /\ UNCHANGED samples
       \/ /\ Deliver(t, ProgressEvent(total[t], total[t], "completion"))
          /\ Return(t)
    /\ UNCHANGED <<state, lock, resets, op, arg, calls, took, seen, wrote>>

\* --------------------------------------------------------- reject_transfer
\* lock and take the request out of the state; on a match request.reject()
\* is awaited while the guard `state` is still alive
reject_transfer_take(t) ==
    /\ op[t] = "reject_transfer" /\ pc[t] = "start"
    /\ lock = 0
    /\ Replace(t)
    /\ IF IsReceiving(state)
       THEN /\ took' = [took EXCEPT ![t] = state.res]
            /\ lock' = t
            /\ Goto(t, "reject")
            /\ Call(t)
       ELSE /\ Fail(t, "NoActiveSession")
            /\ UNCHANGED <<took, lock, calls>>
    /\ UNCHANGED <<resets, op, arg, samples>>

\* variant: the guard outlives the operation
reject_transfer_finish_keeps_guard(t) ==
    /\ op[t] = "reject_transfer" /\ pc[t] = "reject"
    /\ \/ Fail(t, "TransferFailed")
       \/ Return(t)
    /\ UNCHANGED <<state, lock, resets, op, arg, samples, calls, took, seen,
                   wrote>>

\* variant: a failed rejection puts the request back into the state
reject_transfer_finish_restore(t) ==
    /\ op[t] = "reject_transfer" /\ pc[t] = "reject"
    /\ lock' = 0
    /\ \/ Fail(t, "TransferFailed") /\ Store(t, Receiving(took[t], 0))
       \/ Return(t) /\ UNCHANGED <<state, wrote>>
    /\ UNCHANGED <<resets, op, arg, samples, calls, took, seen>>

\* request.reject().await returns; the guard is dropped on return
reject_transfer_finish(t) ==
    /\ op[t] = "reject_transfer" /\ pc[t] = "reject"
    /\ lock' = 0
    /\ \/ Fail(t, "TransferFailed")
       \/ Return(t)
    /\ UNCHANGED <<state, resets, op, arg, samples, calls, took, seen, wrote>>

\* ------------------------------------------------------------------ cancel
\* cancel(): clone the Arc and tokio::spawn the reset task; returns at once
cancel ==
    /\ resets < MaxResets
    /\ resets' = resets + 1
    /\ UNCHANGED <<state, lock>>
    /\ UNCHANGED taskVars

\* variant: the reset also ends every task that is suspended in a
\* collaborator call
cancel_reset_abort ==
    /\ resets > 0
    /\ lock = 0
    /\ state' = Idle
    /\ resets' = resets - 1
    /\ pc' = [t \in Tasks |->
                 IF pc[t] \in {"new", "start", "install", "done"}
                 THEN pc[t] ELSE "done"]
    /\ result' = [t \in Tasks |->
                     IF pc[t] \in {"new", "start", "install", "done"}
                     THEN result[t] ELSE "Cancelled"]
    /\ UNCHANGED <<lock, op, arg, total, samples, calls, took, seen, wrote>>

\* the spawned task: `let mut s = state.lock().await; *s = Idle;`
cancel_reset ==
    /\ resets > 0
    /\ lock = 0
    /\ state' = Idle
    /\ resets' = resets - 1
    /\ UNCHANGED lock
    /\ UNCHANGED taskVars

\* what the observer can record of one step:
\*   cancelled  cancel() has returned
\*   stale      mailboxes / requests that were in the state when cancel() was
\*              called
\*   after      tasks invoked after cancel() returned
\*   fresh      a create_send_code or connect_receive stored its phase after
\*              cancel() returned
\*   resetRan   a reset task spawned by cancel() has set the phase
\*   inflight   tasks that were invoked and had not returned when a reset
\*              task set the phase
\*   dropped    mailboxes / requests that left the state without being moved
\*              into a task, each with the kind of step that discarded it
Observation ==
    [cancelled |-> hist.cancelled \/ resets' > resets,
     stale |-> hist.stale \cup
               (IF resets' > resets /\ state.res # 0
                THEN {state.res} ELSE {}),
     after |-> hist.after \cup
               (IF hist.cancelled
                THEN {t \in Tasks : pc[t] = "new" /\ pc'[t] # "new"}
                ELSE {}),
     fresh |-> hist.fresh \/
               (hist.cancelled /\ state' # state /\ state'.tag # "Idle"),
     resetRan |-> hist.resetRan \/ resets' < resets,
     inflight |-> hist.inflight \cup
                  (IF resets' < resets
                   THEN {t \in Tasks : pc[t] \notin {"new", "done"}}
                   ELSE {}),
     dropped |-> hist.dropped \cup
                 (IF /\ state.res # 0
                     /\ state'.res # state.res
                     /\ \A u \in Tasks : took'[u] # state.res
                  THEN {<<state.res,
                          IF resets' < resets THEN "reset"
                          ELSE IF state'.tag # "Idle" THEN "install"
                          ELSE "take">>}
                  ELSE {})]

\* the observer follows the listed fields and leaves the others as they are
Observe(fields) ==
    hist' = [f \in DOMAIN hist |->
                IF f \in fields THEN Observation[f] ELSE hist[f]]

\* a step of the program, recorded by the observer
Observed(A, fields) == A /\ Observe(fields)

Next ==
    \/ \E t \in Tasks, o \in TakeOps : \E a \in ArgsOf(o) :
          Invoke(t, o, a) /\ UNCHANGED hist
    \/ \E t \in Tasks : create_send_code_call(t) /\ UNCHANGED hist
    \/ \E t \in Tasks : create_send_code_create(t) /\ UNCHANGED hist
    \/ \E t \in Tasks : create_send_code_install(t) /\ UNCHANGED hist
    \/ \E t \in Tasks : send_file_take(t) /\ UNCHANGED hist
    \/ \E t \in Tasks : send_file_connect(t) /\ UNCHANGED hist
    \/ \E t \in Tasks : send_file_offer(t) /\ UNCHANGED hist
    \/ \E t \in Tasks : send_file_finish(t) /\ UNCHANGED hist
    \/ \E t \in Tasks, code \in Codes :
          connect_receive_call(t, code) /\ UNCHANGED hist
    \/ \E t \in Tasks : connect_receive_mailbox(t) /\ UNCHANGED hist
    \/ \E t \in Tasks : connect_receive_connect(t) /\ UNCHANGED hist
    \/ \E t \in Tasks : connect_receive_request(t) /\ UNCHANGED hist
    \/ \E t \in Tasks : connect_receive_install(t) /\ UNCHANGED hist
    \/ \E t \in Tasks : accept_transfer_take(t) /\ UNCHANGED hist
    \/ \E t \in Tasks : accept_transfer_open(t) /\ UNCHANGED hist
    \/ \E t \in Tasks : accept_transfer_finish(t) /\ UNCHANGED hist
    \/ \E t \in Tasks : reject_transfer_take(t) /\ UNCHANGED hist
    \/ \E t \in Tasks : reject_transfer_finish(t) /\ UNCHANGED hist
    \/ \E t \in Tasks : progress_handler(t) /\ UNCHANGED hist
    \/ cancel /\ UNCHANGED hist
    \/ cancel_reset /\ UNCHANGED hist

Spec == Init /\ [][Next]_vars

\* The send path alone: one create_send_code and any number of send_file
\* calls, with no other operation and no cancel.
NextSend ==
    \/ \E t \in Tasks :
          /\ \A u \in Tasks : op[u] # "create_send_code"
          /\ create_send_code_call(t)
          /\ UNCHANGED hist
    \/ \E t \in Tasks : create_send_code_create(t) /\ UNCHANGED hist
    \/ \E t \in Tasks : create_send_code_install(t) /\ UNCHANGED hist
    \/ \E t \in Tasks, a \in Paths : Invoke(t, "send_file", a) /\ UNCHANGED hist
    \/ \E t \in Tasks : send_file_take(t) /\ UNCHANGED hist
    \/ \E t \in Tasks : send_file_connect(t) /\ UNCHANGED hist
    \/ \E t \in Tasks : send_file_offer(t) /\ UNCHANGED hist
    \/ \E t \in Tasks : send_file_finish(t) /\ UNCHANGED hist
    \/ \E t \in Tasks : progress_handler(t) /\ UNCHANGED hist

SpecSend == Init /\ [][NextSend]_vars

\* The receive path alone: one connect_receive, any number of accept_transfer
\* and reject_transfer calls, and cancel.
NextReceive ==
    \/ \E t \in Tasks, code \in Codes :
          /\ \A u \in Tasks : op[u] # "connect_receive"
          /\ connect_receive_call(t, code)
          /\ UNCHANGED hist
    \/ \E t \in Tasks : connect_receive_mailbox(t) /\ UNCHANGED hist
    \/ \E t \in Tasks : connect_receive_connect(t) /\ UNCHANGED hist
    \/ \E t \in Tasks : connect_receive_request(t) /\ UNCHANGED hist
    \/ \E t \in Tasks : connect_receive_install(t) /\ UNCHANGED hist
    \/ \E t \in Tasks, o \in {"accept_transfer", "reject_transfer"} :
          Invoke(t, o, NoArg) /\ UNCHANGED hist
    \/ \E t \in Tasks : accept_transfer_take(t) /\ UNCHANGED hist
    \/ \E t \in Tasks : accept_transfer_open(t) /\ UNCHANGED hist
    \/ \E t \in Tasks : accept_transfer_finish(t) /\ UNCHANGED hist
    \/ \E t \in Tasks : reject_transfer_take(t) /\ UNCHANGED hist
    \/ \E t \in Tasks : reject_transfer_finish(t) /\ UNCHANGED hist
    \/ \E t \in Tasks : progress_handler(t) /\ UNCHANGED hist
    \/ cancel /\ UNCHANGED hist
    \/ cancel_reset /\ UNCHANGED hist

SpecReceive == Init /\ [][NextReceive]_vars

\* Every operation, with one call of cancel(), followed by the observer.
CancelFields == {"cancelled", "stale", "after", "fresh"}

NextCancel ==
    \/ \E t \in Tasks, o \in TakeOps : \E a \in ArgsOf(o) :
          Observed(Invoke(t, o, a), CancelFields)
    \/ \E t \in Tasks : Observed(create_send_code_call(t), CancelFields)
    \/ \E t \in Tasks : Observed(create_send_code_create(t), CancelFields)
    \/ \E t \in Tasks : Observed(create_send_code_install(t), CancelFields)
    \/ \E t \in Tasks : Observed(send_file_take(t), CancelFields)
    \/ \E t \in Tasks : Observed(send_file_connect(t), CancelFields)
    \/ \E t \in Tasks : Observed(send_file_offer(t), CancelFields)
    \/ \E t \in Tasks : Observed(send_file_finish(t), CancelFields)
    \/ \E t \in Tasks, code \in Codes :
          Observed(connect_receive_call(t, code), CancelFields)
    \/ \E t \in Tasks : Observed(connect_receive_mailbox(t), CancelFields)
    \/ \E t \in Tasks : Observed(connect_receive_connect(t), CancelFields)
    \/ \E t \in Tasks : Observed(connect_receive_request(t), CancelFields)
    \/ \E t \in Tasks : Observed(connect_receive_install(t), CancelFields)
    \/ \E t \in Tasks : Observed(accept_transfer_take(t), CancelFields)
    \/ \E t \in Tasks : Observed(accept_transfer_open(t), CancelFields)
    \/ \E t \in Tasks : Observed(accept_transfer_finish(t), CancelFields)
    \/ \E t \in Tasks : Observed(reject_transfer_take(t), CancelFields)
    \/ \E t \in Tasks : Observed(reject_transfer_finish(t), CancelFields)
    \/ \E t \in Tasks : Observed(progress_handler(t), CancelFields)
    \/ ~hist.cancelled /\ Observed(cancel, CancelFields)
    \/ Observed(cancel_reset, CancelFields)

SpecCancel == Init /\ [][NextCancel]_vars

\* The session state alone: every operation up to its last access to the
\* state (the transfers stop once they have taken their resource), with one
\* call of cancel(), followed by the observer.
SlotFields == {"cancelled", "dropped"}

NextSlot ==
    \/ \E t \in Tasks, o \in TakeOps : \E a \in ArgsOf(o) :
          Observed(Invoke(t, o, a), SlotFields)
    \/ \E t \in Tasks : Observed(create_send_code_call(t), SlotFields)
    \/ \E t \in Tasks : Observed(create_send_code_create(t), SlotFields)
    \/ \E t \in Tasks : Observed(create_send_code_install(t), SlotFields)
    \/ \E t \in Tasks : Observed(send_file_take(t), SlotFields)
    \/ \E t \in Tasks, code \in Codes :
          Observed(connect_receive_call(t, code), SlotFields)
    \/ \E t \in Tasks : Observed(connect_receive_mailbox(t), SlotFields)
    \/ \E t \in Tasks : Observed(connect_receive_connect(t), SlotFields)
    \/ \E t \in Tasks : Observed(connect_receive_request(t), SlotFields)
    \/ \E t \in Tasks : Observed(connect_receive_install(t), SlotFields)
    \/ \E t \in Tasks : Observed(accept_transfer_take(t), SlotFields)
    \/ \E t \in Tasks : Observed(reject_transfer_take(t), SlotFields)
    \/ \E t \in Tasks : Observed(reject_transfer_finish(t), SlotFields)
    \/ ~hist.cancelled /\ Observed(cancel, SlotFields)
    \/ Observed(cancel_reset, SlotFields)

SpecSlot == Init /\ [][NextSlot]_vars

\* send_file against cancel(): the send path with one create_send_code and
\* one call of cancel(), followed by the observer.
RaceFields == {"cancelled", "stale", "resetRan"}

NextRace ==
    \/ \E t \in Tasks :
          /\ \A u \in Tasks : op[u] # "create_send_code"
          /\ Observed(create_send_code_call(t), RaceFields)
    \/ \E t \in Tasks : Observed(create_send_code_create(t), RaceFields)
    \/ \E t \in Tasks : Observed(create_send_code_install(t), RaceFields)
    \/ \E t \in Tasks, a \in Paths :
          Observed(Invoke(t, "send_file", a), RaceFields)
    \/ \E t \in Tasks : Observed(send_file_take(t), RaceFields)
    \/ \E t \in Tasks : Observed(send_file_connect(t), RaceFields)
    \/ \E t \in Tasks : Observed(send_file_offer(t), RaceFields)
    \/ \E t \in Tasks : Observed(send_file_finish(t), RaceFields)
    \/ \E t \in Tasks : Observed(progress_handler(t), RaceFields)
    \/ ~hist.cancelled /\ Observed(cancel, RaceFields)
    \/ Observed(cancel_reset, RaceFields)

SpecRace == Init /\ [][NextRace]_vars

\* The installing operations against cancel(): any number of create_send_code
\* and connect_receive calls, then one call of cancel() after which no
\* operation is invoked, followed by the observer.
InstallFields == {"cancelled", "resetRan", "inflight"}

NextInstall ==
    \/ \E t \in Tasks :
          /\ ~hist.cancelled
          /\ Observed(create_send_code_call(t), InstallFields)
    \/ \E t \in Tasks : Observed(create_send_code_create(t), InstallFields)
    \/ \E t \in Tasks : Observed(create_send_code_install(t), InstallFields)
    \/ \E t \in Tasks, code \in Codes :
          /\ ~hist.cancelled
          /\ Observed(connect_receive_call(t, code), InstallFields)
    \/ \E t \in Tasks : Observed(connect_receive_mailbox(t), InstallFields)
    \/ \E t \in Tasks : Observed(connect_receive_connect(t), InstallFields)
    \/ \E t \in Tasks : Observed(connect_receive_request(t), InstallFields)
    \/ \E t \in Tasks : Observed(connect_receive_install(t), InstallFields)
    \/ ~hist.cancelled /\ Observed(cancel, InstallFields)
    \/ Observed(cancel_reset, InstallFields)

SpecInstall == Init /\ [][NextInstall]_vars

\* Every operation on well-formed arguments, with one create_send_code, one
\* connect_receive, any number of send_file, accept_transfer and
\* reject_transfer calls and one call of cancel(), under the scheduling the
\* runtime gives: a task that can take its next step (its collaborator call
\* has returned and, where it locks, the mutex is free) eventually takes it,
\* and so does the reset task.  Invocations and cancel() are up to the caller
\* and are not forced.
LiveFields == {"cancelled"}

NextLive ==
    \/ \E t \in Tasks, o \in TakeOps :
          \E a \in ArgsOf(o) \cap (ExistingPaths \cup {NoArg}) :
              Observed(Invoke(t, o, a), LiveFields)
    \/ \E t \in Tasks :
          /\ \A u \in Tasks : op[u] # "create_send_code"
          /\ Observed(create_send_code_call(t), LiveFields)
    \/ \E t \in Tasks : Observed(create_send_code_create(t), LiveFields)
    \/ \E t \in Tasks : Observed(create_send_code_install(t), LiveFields)
    \/ \E t \in Tasks : Observed(send_file_take(t), LiveFields)
    \/ \E t \in Tasks : Observed(send_file_connect(t), LiveFields)
    \/ \E t \in Tasks : Observed(send_file_offer(t), LiveFields)
    \/ \E t \in Tasks : Observed(send_file_finish(t), LiveFields)
    \/ \E t \in Tasks, code \in WellFormedCodes :
          /\ \A u \in Tasks : op[u] # "connect_receive"
          /\ Observed(connect_receive_call(t, code), LiveFields)
    \/ \E t \in Tasks : Observed(connect_receive_mailbox(t), LiveFields)
    \/ \E t \in Tasks : Observed(connect_receive_connect(t), LiveFields)
    \/ \E t \in Tasks : Observed(connect_receive_request(t), LiveFields)
    \/ \E t \in Tasks : Observed(connect_receive_install(t), LiveFields)
    \/ \E t \in Tasks : Observed(accept_transfer_take(t), LiveFields)
    \/ \E t \in Tasks : Observed(accept_transfer_open(t), LiveFields)
    \/ \E t \in Tasks : Observed(accept_transfer_finish(t), LiveFields)
    \/ \E t \in Tasks : Observed(reject_transfer_take(t), LiveFields)
    \/ \E t \in Tasks : Observed(reject_transfer_finish(t), LiveFields)
    \/ ~hist.cancelled /\ Observed(cancel, LiveFields)
    \/ Observed(cancel_reset, LiveFields)

\* the steps task t takes by itself once it has been invoked
Step(t) ==
    \/ create_send_code_create(t)
    \/ create_send_code_install(t)
    \/ send_file_take(t)
    \/ send_file_connect(t)
    \/ send_file_offer(t)
    \/ send_file_finish(t)
    \/ connect_receive_mailbox(t)
    \/ connect_receive_connect(t)
    \/ connect_receive_request(t)
    \/ connect_receive_install(t)
    \/ accept_transfer_take(t)
    \/ accept_transfer_open(t)
    \/ accept_transfer_finish(t)
    \/ reject_transfer_take(t)
    \/ reject_transfer_finish(t)

Fairness ==
    /\ \A t \in Tasks : WF_vars(Observed(Step(t), LiveFields))
    /\ WF_vars(Observed(cancel_reset, LiveFields))

SpecLive == Init /\ [][NextLive]_vars /\ Fairness

\* ProgressEvent::new alone: a caller hands it any pair of byte counters and
\* keeps the event it built.
Sample(transferred, bytes) ==
    /\ samples' = [samples EXCEPT ![1] =
                       <<ProgressEvent(transferred, bytes, "caller")>>]
    /\ UNCHANGED <<state, lock, resets, op, arg, pc, result, total, calls,
                   took, seen, wrote, hist>>

NextPercent ==
    \E transferred \in 0..MaxBytes, bytes \in 0..MaxBytes :
        Sample(transferred, bytes)

SpecPercent == Init /\ [][NextPercent]_vars

\* ================================================================== claims
Failed(t) == result[t] \notin {"pending", "Ok"}

Transfers == {t \in Tasks : op[t] \in {"send_file", "accept_transfer"}}

\* task t is suspended in a network round-trip of the collaborator
InNetworkCall(t) ==
    pc[t] \in {"create", "connect", "mailbox", "request", "stream", "reject"}

\* transfer::send / request.accept has been started by task t
Streamed(t) ==
    \/ op[t] = "send_file" /\ calls[t] = 3
    \/ op[t] = "accept_transfer" /\ calls[t] = 1

NonDecreasing(seq) ==
    \A i \in 1..Len(seq) : \A j \in i..Len(seq) :
        seq[i].transferred <= seq[j].transferred

\* C1: whenever an operation is suspended in a network round-trip, the
\* session lock is free.  reject_transfer awaits request.reject() with the
\* guard alive, so this fails.
C1_LockFreeInNetworkCall ==
    \A t \in Tasks : InNetworkCall(t) => lock = 0

\* C2 as stated: whenever send_file, accept_transfer or reject_transfer runs
\* its first step while the phase is Idle, for any arguments, it fails with
\* NoActiveSession and makes no collaborator call.  send_file with a missing
\* path fails with FileNotFound instead.
C2_IdleAlwaysNoActiveSession ==
    [][\A t \in Tasks :
          (op[t] \in TakeOps /\ pc[t] = "start" /\ pc'[t] # "start"
             /\ state.tag = "Idle")
          => (result'[t] = "NoActiveSession" /\ calls'[t] = 0)]_vars

\* C2 amended: a send_file with an existing path, an accept_transfer or a
\* reject_transfer whose take finds the phase Idle has failed with
\* NoActiveSession and has made no collaborator call.
C2_IdleTakeFails ==
    \A t \in Tasks :
        (op[t] \in TakeOps /\ seen[t] = "Idle")
        => (pc[t] = "done" /\ result[t] = "NoActiveSession"
              /\ calls[t] = 0 /\ took[t] = 0)

\* all three operations have found the phase Idle and failed
C2_Witness ==
    \A o \in TakeOps : \E t \in Tasks :
        op[t] = o /\ seen[t] = "Idle" /\ result[t] = "NoActiveSession"

\* C3: with one successful create_send_code and otherwise only send_file
\* calls, at most one send_file has taken the mailbox; the mailbox is still
\* in the slot exactly as long as none has (so the first send_file to reach
\* the slot after the install takes it), the taker has started the key
\* exchange, and every other send_file with an existing path that has
\* reached the slot has failed with NoActiveSession without any call.
C3_ExactlyOneSendProceeds ==
    LET S == {t \in Tasks : op[t] = "send_file" /\ arg[t] \in ExistingPaths}
        takers == {t \in S : took[t] # 0}
    IN  \A c \in Tasks :
           (op[c] = "create_send_code" /\ result[c] = "Ok")
           => /\ Cardinality(takers) <= 1
              /\ (state = MailboxReady(c)) <=> (takers = {})
              /\ \A t \in takers :
                    /\ took[t] = c
                    /\ seen[t] = "MailboxReady"
                    /\ calls[t] >= 1
              /\ \A t \in S \ takers :
                    seen[t] # "none"
                    => (result[t] = "NoActiveSession" /\ calls[t] = 0)

\* one send_file has the mailbox and another, with an existing path, has
\* failed with NoActiveSession
C3_Witness ==
    \E c \in Tasks, t \in Tasks, u \in Tasks :
        /\ op[c] = "create_send_code" /\ result[c] = "Ok"
        /\ op[t] = "send_file" /\ took[t] = c /\ pc[t] # "start"
        /\ op[u] = "send_file" /\ u # t /\ arg[u] \in ExistingPaths
        /\ result[u] = "NoActiveSession"

\* C4: no mailbox or pending request is obtained by two operations, the
\* resource held in the slot has been obtained by none (a take leaves the
\* slot Idle, a later install brings a new resource), and whoever obtained
\* one stored Idle when it matched a MailboxReady or Receiving phase.
C4_ConsumedAtMostOnce ==
    /\ \A t \in Tasks : \A u \in Tasks \ {t} :
          took[t] # 0 => took[t] # took[u]
    /\ \A t \in Tasks : state.res # 0 => took[t] # state.res
    /\ \A t \in Tasks :
          took[t] # 0
          => ("Idle" \in wrote[t] /\ seen[t] \in {"MailboxReady", "Receiving"})

\* a mailbox and a pending request have both been consumed, by a send_file
\* and by an accept_transfer or reject_transfer, while another take failed
C4_Witness ==
    \E t \in Tasks, u \in Tasks :
        /\ took[t] # 0 /\ op[t] \in TakeOps
        /\ u # t /\ op[u] = op[t] /\ seen[u] # "none" /\ took[u] = 0
        /\ state = Idle

\* C5: a successful transfer of a file of T bytes has non-decreasing
\* samples, the last with transferred = total = T and percent = 100.
\* For T = 0 the completion sample carries percent 0.
C5_FinalSampleIsComplete ==
    \A t \in Transfers :
        result[t] = "Ok"
        => /\ samples[t] # << >>
           /\ NonDecreasing(samples[t])
           /\ LET last == samples[t][Len(samples[t])]
              IN  /\ last.transferred = total[t]
                  /\ last.total = total[t]
                  /\ last.percent = 100

\* C6: a successful transfer has exactly one sample with transferred = total.
\* The transit layer's own last report reaches the total as well.
C6_OneCompleteSample ==
    \A t \in Transfers :
        result[t] = "Ok"
        => Cardinality({i \in 1..Len(samples[t]) :
                           samples[t][i].transferred = samples[t][i].total}) = 1

\* C7: a send_file or accept_transfer that failed before streaming started
\* has delivered no sample, and no failed one has delivered the completion
\* sample.
C7_NoSampleOnEarlyFailure ==
    \A t \in Transfers :
        /\ result[t] \in {"FileNotFound", "NoActiveSession",
                          "ConnectionFailed", "IoError"}
           => samples[t] = << >>
        /\ (Failed(t) /\ ~Streamed(t)) => samples[t] = << >>
        /\ Failed(t)
           => \A i \in 1..Len(samples[t]) : samples[t][i].src # "completion"

\* a send_file failed while streaming after a sample was reported, and
\* another transfer failed before it had a mailbox or request
C7_Witness ==
    /\ \E t \in Tasks :
          /\ op[t] = "send_file" /\ result[t] = "TransferFailed"
          /\ Streamed(t) /\ samples[t] # << >>
    /\ \E u \in Transfers :
          result[u] = "NoActiveSession" /\ samples[u] = << >>

\* C8 as stated: the step in which an operation fails leaves the phase Idle.
C8_FailureLeavesIdle ==
    [][\A t \in Tasks :
          (result[t] = "pending" /\ result'[t] \notin {"pending", "Ok"})
          => state'.tag = "Idle"]_vars

\* C8 amended: a failed operation has stored no phase other than Idle: a
\* failed create_send_code or connect_receive and a send_file failing with
\* FileNotFound have stored nothing, every other failed send_file,
\* accept_transfer or reject_transfer has stored Idle in its take.
C8_FailureStoresOnlyIdle ==
    \A t \in Tasks :
        Failed(t)
        => IF op[t] \in {"create_send_code", "connect_receive"}
              \/ result[t] = "FileNotFound"
           THEN wrote[t] = {} /\ seen[t] = "none"
           ELSE wrote[t] = {"Idle"} /\ seen[t] # "none"

\* a create_send_code has failed and the phase is the MailboxReady of an
\* earlier one; a take has failed too
C8_Witness ==
    /\ \E t \in Tasks :
          /\ op[t] = "create_send_code" /\ result[t] = "ConnectionFailed"
          /\ state.tag = "MailboxReady"
    /\ \E u \in Tasks : op[u] \in TakeOps /\ result[u] = "NoActiveSession"

\* C9: a send_file with a path that does not exist has failed with
\* FileNotFound once it has run, without a collaborator call, without
\* replacing the phase and without obtaining the mailbox.
C9_MissingPathFileNotFound ==
    \A t \in Tasks :
        (op[t] = "send_file" /\ arg[t] \notin ExistingPaths /\ pc[t] # "start")
        => /\ pc[t] = "done" /\ result[t] = "FileNotFound"
           /\ calls[t] = 0
           /\ took[t] = 0 /\ seen[t] = "none" /\ wrote[t] = {}

\* such a send_file has failed and the mailbox is still in the slot
C9_Witness ==
    \E t \in Tasks :
        /\ op[t] = "send_file" /\ result[t] = "FileNotFound"
        /\ state.tag = "MailboxReady"

\* C10: a connect_receive with a code that does not parse has failed with
\* InvalidCode, has made no collaborator call and has stored no phase.
C10_BadCodeInvalidCode ==
    \A t \in Tasks :
        (op[t] = "connect_receive" /\ arg[t] \notin WellFormedCodes)
        => /\ pc[t] = "done" /\ result[t] = "InvalidCode"
           /\ calls[t] = 0
           /\ wrote[t] = {} /\ seen[t] = "none" /\ took[t] = 0

\* such a connect_receive has failed and a phase installed earlier is intact
C10_Witness ==
    \E t \in Tasks :
        /\ op[t] = "connect_receive" /\ result[t] = "InvalidCode"
        /\ state.tag # "Idle"


\* C11: on the receive path with one connect_receive, once a reject_transfer has
\* taken the pending request the phase is Idle and stays Idle through its
\* return, whether it returns Ok or TransferFailed, and every other
\* accept_transfer or reject_transfer that reaches its match fails with
\* NoActiveSession without obtaining a request or making a network call.
C11_RejectLeavesIdle ==
    \A t \in Tasks :
        (op[t] = "reject_transfer" /\ took[t] # 0) =>
            /\ seen[t] = "Receiving"
            /\ state = Idle
            /\ wrote[t] = {"Idle"}
            /\ pc[t] = "done" => result[t] \in {"Ok", "TransferFailed"}
            /\ \A u \in Tasks \ {t} :
                  (op[u] \in {"accept_transfer", "reject_transfer"}
                      /\ seen[u] # "none") =>
                      /\ result[u] = "NoActiveSession"
                      /\ took[u] = 0
                      /\ calls[u] = 0

\* a rejection that failed with TransferFailed, followed by an accept_transfer
\* and a reject_transfer that both found nothing
C11_Witness ==
    \E t, u, v \in Tasks :
        /\ op[t] = "reject_transfer" /\ took[t] # 0
        /\ result[t] = "TransferFailed"
        /\ op[u] = "accept_transfer" /\ result[u] = "NoActiveSession"
        /\ seen[u] = "Idle"
        /\ op[v] = "connect_receive" /\ result[v] = "Ok"

\* C12: on the receive path with one connect_receive, an accept_transfer that
\* failed with IoError had taken the pending request out of phase Receiving,
\* never started request.accept, delivered no sample, and the phase is Idle;
\* no other task holds the request it consumed.
C12_OpenFailureConsumes ==
    \A t \in Tasks :
        (op[t] = "accept_transfer" /\ result[t] = "IoError") =>
            /\ seen[t] = "Receiving"
            /\ took[t] # 0
            /\ calls[t] = 0
            /\ samples[t] = << >>
            /\ wrote[t] = {"Idle"}
            /\ state = Idle
            /\ \A u \in Tasks \ {t} : took[u] # took[t]

C12_Witness ==
    \E t, v \in Tasks :
        /\ op[t] = "accept_transfer" /\ result[t] = "IoError"
        /\ op[v] = "connect_receive" /\ result[v] = "Ok" /\ took[t] = v

\* C13: a send_file, accept_transfer or reject_transfer invoked after cancel()
\* has returned never obtains a mailbox or request that was in the state when
\* cancel() was called, and, unless a create_send_code or connect_receive has
\* stored its phase since the cancel, its match fails with NoActiveSession.
C13_NoStaleAfterCancel ==
    \A u \in hist.after :
        op[u] \in TakeOps =>
            /\ took[u] \notin hist.stale
            /\ (seen[u] # "none" /\ ~hist.fresh) =>
                  result[u] = "NoActiveSession"

\* 100 * transferred / total rounded to the nearest integer, halves up
RoundedPercent(transferred, bytes) ==
    (200 * transferred + bytes) \div (2 * bytes)

\* C14: every event built by ProgressEvent::new has percent equal to
\* 100 * transferred / total rounded to the nearest integer when total > 0 and
\* 0 when total = 0, and its percent lies in 0..100 also when transferred
\* exceeds total.
C14_PercentRoundedAndClamped ==
    \A t \in Tasks : \A i \in 1..Len(samples[t]) :
        LET event == samples[t][i] IN
            /\ event.total > 0 =>
                  event.percent = RoundedPercent(event.transferred, event.total)
            /\ event.total = 0 => event.percent = 0
            /\ event.percent \in 0..100

\* task t reached its match with a phase of another operation:
\* MailboxReady is for send_file, Receiving for accept_transfer and
\* reject_transfer, Connected for none
Mismatched(t) ==
    \/ op[t] \in TakeOps /\ seen[t] = "Connected"
    \/ op[t] = "send_file" /\ seen[t] = "Receiving"
    \/ op[t] \in {"accept_transfer", "reject_transfer"}
          /\ seen[t] = "MailboxReady"

\* C15: a send_file, accept_transfer or reject_transfer that meets a phase of
\* another operation fails with NoActiveSession, has stored Idle and nothing
\* else, has obtained no resource and made no network call; the mailbox or
\* request it displaced is neither in the state nor held by any task.
C15_MismatchDiscardsPhase ==
    /\ \A t \in Tasks :
          Mismatched(t) =>
              /\ result[t] = "NoActiveSession"
              /\ wrote[t] = {"Idle"}
              /\ took[t] = 0
              /\ calls[t] = 0
    /\ \A d \in hist.dropped :
          d[2] = "take" =>
              /\ state.res # d[1]
              /\ \A u \in Tasks : took[u] # d[1]

\* an accept_transfer displaced a mailbox, and the send_file that came for
\* the mailbox found Idle
C15_Witness ==
    \E c, t, u \in Tasks :
        /\ op[c] = "create_send_code" /\ <<c, "take">> \in hist.dropped
        /\ op[t] = "accept_transfer" /\ seen[t] = "MailboxReady"
        /\ result[t] = "NoActiveSession"
        /\ op[u] = "send_file" /\ seen[u] = "Idle"
        /\ result[u] = "NoActiveSession"

\* C16: with cancel() called in phase MailboxReady, a send_file of an existing
\* path that has reached its match either took the mailbox and goes on with
\* the transfer, ending only with what the collaborator returns, or found
\* Idle and failed with NoActiveSession before any network call; once it has
\* returned and the reset task has run, the phase is Idle.
C16_SendCancelRace ==
    \A t \in Tasks :
        (/\ op[t] = "send_file" /\ arg[t] \in ExistingPaths
         /\ seen[t] # "none" /\ hist.stale # {}) =>
            /\ \/ /\ seen[t] = "MailboxReady"
                  /\ took[t] \in hist.stale
                  /\ result[t] \in
                        {"pending", "Ok", "ConnectionFailed", "TransferFailed"}
                  /\ pc[t] # "done" =>
                        ENABLED (\/ send_file_connect(t)
                                 \/ send_file_offer(t)
                                 \/ send_file_finish(t))
               \/ /\ seen[t] = "Idle"
                  /\ took[t] = 0
                  /\ result[t] = "NoActiveSession"
                  /\ calls[t] = 0
            /\ (pc[t] = "done" /\ hist.resetRan) => state = Idle

\* the reset ran first: the send_file found Idle and nobody has the mailbox
C16_Witness ==
    \E t \in Tasks :
        /\ op[t] = "send_file" /\ arg[t] \in ExistingPaths
        /\ hist.stale # {} /\ hist.resetRan
        /\ seen[t] = "Idle" /\ result[t] = "NoActiveSession"
        /\ \A u \in Tasks : took[u] \notin hist.stale

\* C17: connect_receive stores its phase whatever the phase is: its install
\* step is enabled in every phase once the mutex is free; a connect_receive
\* that returned Ok made its three collaborator calls and stored Receiving and
\* nothing else, while its request is in the state the phase is Receiving
\* with that request and the filesize it returned, an accept_transfer that
\* took the request reads the same filesize, and a mailbox or request that an
\* install displaced is neither in the state nor held by any task.
C17_ReceiveDisplaces ==
    /\ \A t \in Tasks :
          op[t] = "connect_receive" =>
              /\ (pc[t] = "install" /\ lock = 0) =>
                    ENABLED connect_receive_install(t)
              /\ result[t] = "Ok" =>
                    /\ wrote[t] = {"Receiving"}
                    /\ calls[t] = 3
                    /\ state.res = t => state = Receiving(t, total[t])
                    /\ \A u \in Tasks :
                          (took[u] = t /\ pc[u] = "open") =>
                              total[u] = total[t]
    /\ \A d \in hist.dropped :
          d[2] = "install" =>
              /\ state.res # d[1]
              /\ \A u \in Tasks : took[u] # d[1]

\* a connect_receive displaced a mailbox, a second one displaced the request
\* of the first, and the second request is pending with its filesize
C17_Witness ==
    \E c, r, t \in Tasks :
        /\ op[c] = "create_send_code" /\ <<c, "install">> \in hist.dropped
        /\ op[r] = "connect_receive" /\ <<r, "install">> \in hist.dropped
        /\ op[t] = "connect_receive" /\ result[t] = "Ok"
        /\ total[t] = MaxSize
        /\ state = Receiving(t, total[t])

\* C18: the phase is always Idle, MailboxReady or Receiving and never
\* Connected; a MailboxReady or Receiving phase in the state is the one a
\* create_send_code or connect_receive that returned Ok stored in its last
\* step; only those two operations have stored a phase other than Idle, and
\* send_file, accept_transfer and reject_transfer have stored only Idle and
\* never found Connected.
C18_PhasesWritten ==
    /\ state.tag \in {"Idle", "MailboxReady", "Receiving"}
    /\ state.tag = "MailboxReady" =>
          /\ op[state.res] = "create_send_code"
          /\ pc[state.res] = "done" /\ result[state.res] = "Ok"
          /\ state = MailboxReady(state.res)
    /\ state.tag = "Receiving" =>
          /\ op[state.res] = "connect_receive"
          /\ pc[state.res] = "done" /\ result[state.res] = "Ok"
          /\ state = Receiving(state.res, total[state.res])
    /\ \A t \in Tasks :
          /\ "Connected" \notin wrote[t]
          /\ seen[t] # "Connected"
          /\ "MailboxReady" \in wrote[t] =>
                /\ op[t] = "create_send_code"
                /\ pc[t] = "done" /\ result[t] = "Ok"
          /\ "Receiving" \in wrote[t] =>
                /\ op[t] = "connect_receive"
                /\ pc[t] = "done" /\ result[t] = "Ok"
          /\ op[t] \in {"create_send_code", "connect_receive"} =>
                "Idle" \notin wrote[t]
          /\ op[t] \in TakeOps => wrote[t] \subseteq {"Idle"}

\* each of the three kinds of write has happened
C18_Witness ==
    \E c, r, t \in Tasks :
        /\ wrote[c] = {"MailboxReady"}
        /\ wrote[r] = {"Receiving"}
        /\ op[t] \in TakeOps /\ wrote[t] = {"Idle"}
        /\ seen[t] = "MailboxReady"
        /\ state.tag = "Receiving"

\* C19: with no operation invoked after cancel(), a create_send_code or
\* connect_receive that was in flight when the reset task of cancel() set
\* the phase to Idle is not ended by the reset: it
\* fails only with what its collaborator calls return, its next step stays
\* enabled, and once it has returned Ok the phase is not Idle, although
\* cancel() was called and its reset has run.
C19_ResetDoesNotStopInstall ==
    \A t \in hist.inflight :
        /\ op[t] = "create_send_code" =>
              /\ result[t] \in {"pending", "Ok", "ConnectionFailed"}
              /\ pc[t] # "done" =>
                    ENABLED (\/ create_send_code_create(t)
                             \/ create_send_code_install(t))
        /\ op[t] = "connect_receive" =>
              /\ result[t] \in {"pending", "Ok", "ConnectionFailed",
                                 "TransferFailed", "Cancelled"}
              /\ pc[t] # "done" =>
                    ENABLED (\/ connect_receive_mailbox(t)
                             \/ connect_receive_connect(t)
                             \/ connect_receive_request(t)
                             \/ connect_receive_install(t))
        /\ result[t] = "Ok" => state.tag # "Idle"

\* the reset ran while create_send_code was in flight and the phase is the
\* MailboxReady it installed afterwards
C19_Witness ==
    \E t \in hist.inflight :
        /\ op[t] = "create_send_code" /\ result[t] = "Ok"
        /\ hist.resetRan /\ resets = 0
        /\ state = MailboxReady(t)

\* every operation that was invoked has returned and no reset task is pending
Quiescent ==
    /\ \A t \in Tasks : pc[t] \in {"new", "done"}
    /\ resets = 0

\* C20: under the fair scheduling of SpecLive every behaviour ends up, for
\* good, with every invoked operation returned and the reset task of
\* cancel() run: no task waits for the mutex forever.
C20_EveryOperationReturns == <>[]Quiescent

\* reject_transfer holds the guard in its network call while another
\* operation and the reset task wait for the mutex
C20_Witness ==
    \E t, u \in Tasks :
        /\ op[t] = "reject_transfer" /\ lock = t
        /\ pc[u] \in {"start", "install"} /\ op[u] # "send_file"
        /\ resets > 0
====
